---------------------------- MODULE Spec2Model ----------------------------
(***************************************************************************)
(* Model of twat_fs/upload_providers/dropbox.py: upload_file and the       *)
(* helpers it calls (provider_auth, _validate_file, _ensure_upload_        *)
(* directory, _get_share_url, _get_download_url), run against a model of   *)
(* the remote store.  Every remote call is one step of a call of           *)
(* upload_file; the local computation between two remote calls belongs to  *)
(* the step of the call that precedes it.  Sizes are in bytes and keep the *)
(* values of the source.                                                   *)
(***************************************************************************)
EXTENDS Integers, Sequences, FiniteSets, TLC

(***************************************************************************)
(* Program constants                                                       *)
(***************************************************************************)
MAX_FILE_SIZE == 150 * 1024 * 1024

SMALL_FILE_THRESHOLD == 4 * 1024 * 1024

\* stop_after_attempt(3) of the retry decorator of _get_share_url
STOP_AFTER_ATTEMPT == 3

(***************************************************************************)
(* Bounds of the model                                                     *)
(***************************************************************************)
\* upload_file is called this many times in one behaviour
NumCalls == 2

\* within a century the clock readings run from 0 to MaxClock ticks
MaxClock == 2

\* clock ticks in one second (datetime.now() is finer than its "%S" field)
TicksPerSecond == 2

\* the clock readings lie in the centuries 0 to MaxCentury
MaxCentury == 1

\* passes of the loop of one call that read nothing from the source file
MaxEmptyReads == 2

Calls == 1..NumCalls

\* sizes of the source file: empty, around the single-request threshold,
\* a multiple of the chunk size, and around the maximum
Sizes ==
    { 0,
      SMALL_FILE_THRESHOLD, SMALL_FILE_THRESHOLD + 1,
      3 * SMALL_FILE_THRESHOLD,
      MAX_FILE_SIZE, MAX_FILE_SIZE + 1 }

Min(a, b) == IF a <= b THEN a ELSE b

\* r with the fields of u set
Merge(r, u) ==
    [k \in DOMAIN r \cup DOMAIN u |-> IF k \in DOMAIN u THEN u[k] ELSE r[k]]

(***************************************************************************)
(* Pure helpers of the source                                              *)
(***************************************************************************)
\* provider_auth: bool(os.getenv("DROPBOX_APP_TOKEN"))
provider_auth(tok) == tok

\* line 151: the exception of upload_file without the token
auth_error == "ValueError"

\* _validate_file with the size limit exclusive (size >= MAX_FILE_SIZE)
ValidateExclusiveLimit(kind, size) ==
    IF kind # "file" THEN "FileNotFoundError"
    ELSE IF size >= MAX_FILE_SIZE THEN "ValueError"
    ELSE ""

\* _validate_file: the exception it raises, "" when it returns
_validate_file(kind, size) ==
    IF kind # "file" THEN "FileNotFoundError"
    ELSE IF size > MAX_FILE_SIZE THEN "ValueError"
    ELSE ""

\* a reading of datetime.now(): the century of its year and the ticks
\* since the century began (the same date and time of day in two
\* centuries have the same ticks)
Reading(c, t) == [century |-> c, tick |-> t]

\* strftime("%y%m%d%H%M") of a clock reading: the seconds left out
TimestampToMinutes(r) == r.tick \div (2 * TicksPerSecond)

\* strftime("%y%m%d%H%M%S") of a clock reading: "%y" leaves the century
\* out and "%S" the fraction of the second
Timestamp(r) == r.tick \div TicksPerSecond

\* the remote names: 0 is path.name, 1 + s is stem-<timestamp s>suffix
filename(unique, r) == IF unique THEN 1 + Timestamp(r) ELSE 0

Names == 0..(1 + MaxClock \div TicksPerSecond)

\* URLs: the link's path and number and the value of its dl query parameter
NoneUrl  == [path |-> 0, id |-> 0, dl |-> "None"]
EmptyUrl == [path |-> 0, id |-> 0, dl |-> "empty"]
LinkUrl(n, i) == [path |-> n, id |-> i, dl |-> "0"]

\* _get_download_url: None for an empty URL, else the URL with dl=1
_get_download_url(url) ==
    IF url = EmptyUrl THEN NoneUrl ELSE [url EXCEPT !.dl = "1"]

\* line 188 with the mode left at the default of the client (WriteMode.add)
WriteModeAlwaysAdd(force) == "add"

\* line 188 with the two modes exchanged
WriteModeExchanged(force) == IF force THEN "add" ELSE "overwrite"

\* dropbox.files.WriteMode.overwrite if force else WriteMode.add
WriteMode(force) == IF force THEN "overwrite" ELSE "add"

\* line 192 with the threshold exclusive (file_size < SMALL_FILE_THRESHOLD)
SmallFileExclusive(size) == size < SMALL_FILE_THRESHOLD

\* line 192: the single-request transfer is used
IsSmallFile(size) == size <= SMALL_FILE_THRESHOLD

\* line 213 with the comparison exclusive (< chunk_size)
IsLastChunkExclusive(size, tell) == (size - tell) < SMALL_FILE_THRESHOLD

\* line 213: is_last_chunk
is_last_chunk(size, tell) == (size - tell) <= SMALL_FILE_THRESHOLD

\* lines 205 and 214: the bytes f.read(chunk_size) returns at position tell
\* of a file of the given size; none at or after its end
ReadLength(size, tell) ==
    IF size <= tell THEN 0 ELSE Min(SMALL_FILE_THRESHOLD, size - tell)

\* line 212: the loop condition
LoopCondition(size, tell) == tell < size

\* line 220: int((f.tell() / file_size) * 100).  For 0 < tell <= size <=
\* MAX_FILE_SIZE the float expression equals the integer floor; it is
\* computed digit by digit to stay within 32-bit integers.
Percent(tell, size) ==
    LET q  == tell \div size
        r  == tell % size
        d1 == (r * 10) \div size
        r1 == (r * 10) % size
        d2 == (r1 * 10) \div size
    IN  q * 100 + d1 * 10 + d2

\* line 221 without the step of 10 (progress > last_progress)
ProgressDueAnyIncrease(progress, last) == progress > last

\* line 221: a progress notification is due
ProgressDue(progress, last) == progress >= last + 10

\* line 180 without the skip: the write always follows
SkipNever(force) == FALSE

\* line 180 with the test inverted (if force)
SkipWhenForced(force) == force

\* line 180: the write is skipped for an existing target file
SkipExisting(force) == ~force

\* line 219 left out: the cursor stays at the offset before the chunk
OffsetStale(tell) == tell - SMALL_FILE_THRESHOLD

\* line 219: the cursor offset after an append
OffsetAfterAppend(tell) == tell

\* line 99 taking the last of the listed links (existing_links[-1])
LastExistingLink(existing_links) == existing_links[Len(existing_links)]

\* line 99: existing_links[0]
FirstExistingLink(existing_links) == existing_links[1]

\* the retry decorator stopping one attempt later
StopRetryLate(attempt) == attempt > STOP_AFTER_ATTEMPT

\* the retry decorator: stop after this attempt
StopRetry(attempt) == attempt >= STOP_AFTER_ATTEMPT

(***************************************************************************)
(* State                                                                   *)
(***************************************************************************)
VARIABLES
    token,      \* DROPBOX_APP_TOKEN is set
    localKind,  \* the source path: "missing", "dir" or "file"
    localSize,  \* the size of the source file
    clock,      \* the latest reading of the wall clock
    updir,      \* the remote upload path: "absent", "file" or "folder"
    entry,      \* the remote target paths: name -> "absent", "file", "folder"
    links,      \* the share links of the remote targets: name -> Seq(URL)
    session,    \* the remote upload sessions: call -> bytes received, -1: none
    failures,   \* the calls in which the environment let a remote call fail
    call        \* the calls of upload_file: call -> its locals and history

vars == <<token, localKind, localSize, clock, updir, entry, links, session,
          failures, call>>

env == <<token, localKind, localSize>>

NoRes == [kind |-> "none", err |-> "", at |-> "", url |-> NoneUrl]

Return(url) == [kind |-> "return", err |-> "", at |-> "", url |-> url]

Raise(err, at) == [kind |-> "raise", err |-> err, at |-> at, url |-> NoneUrl]

InitCall ==
    [ pc            |-> "idle",
      force         |-> FALSE,
      unique        |-> FALSE,
      target        |-> 0,
      now           |-> Reading(0, 0),
      file_size     |-> 0,
      mode          |-> "",
      tell          |-> 0,
      offset        |-> 0,
      last_progress |-> 0,
      empty_reads   |-> 0,
      attempt       |-> 0,
      skipped       |-> FALSE,
      fresh         |-> FALSE,
      summary       |-> FALSE,
      writes        |-> 0,
      res           |-> NoRes,
      trace         |-> << >>,
      emitted       |-> << >> ]

\* one remote call in a call's history: the operation, its argument (the
\* path or the write mode), what the store answered, whether it returned
\* or raised, and for a session call the cursor offset passed (for a
\* share-link call the attempt), the bytes sent and the offset afterwards
Rec(op, arg, ret, ok, off, len, after) ==
    [op |-> op, arg |-> arg, ret |-> ret, ok |-> ok, off |-> off, len |-> len,
     after |-> after]

\* the share links an existing target may hold at the start, as the
\* store lists them
InitLinks(n) == { << >>, << LinkUrl(n, 1) >>, << LinkUrl(n, 2), LinkUrl(n, 1) >> }

Init ==
    /\ token \in BOOLEAN
    /\ localKind \in {"missing", "dir", "file"}
    /\ localSize \in (IF localKind = "file" THEN Sizes ELSE {0})
    /\ clock = Reading(0, 0)
    /\ updir \in {"absent", "file", "folder"}
    /\ \E k \in (IF updir = "folder" THEN {"absent", "file", "folder"} ELSE {"absent"}) :
         entry = [n \in Names |-> IF n = 0 THEN k ELSE "absent"]
    /\ \E l \in (IF entry[0] = "file" THEN InitLinks(0) ELSE {<< >>}) :
         links = [n \in Names |-> IF n = 0 THEN l ELSE << >>]
    /\ session = [p \in Calls |-> -1]
    /\ failures = {}
    /\ call = [p \in Calls |-> InitCall]

(***************************************************************************)
(* Steps of upload_file                                                    *)
(***************************************************************************)
\* what a failing remote call raises: an API error or any other exception
FailKinds == {"ApiError", "HttpError"}

\* the remote calls that write the target
WriteOps == {"files_upload", "files_upload_session_finish"}

\* call p makes the remote call rec and goes on with the locals u
Step(p, rec, u) ==
    call' = [call EXCEPT ![p] =
               Merge(Merge(@, u),
                     [trace  |-> Append(@.trace, rec),
                      writes |-> @.writes + IF rec.op \in WriteOps THEN 1 ELSE 0])]

\* what is kept of a finished call once the next one begins: its
\* arguments, its target, the number of its write calls and whether it
\* returned, with the URL, or raised
Summary(c) ==
    Merge(InitCall,
          [pc |-> "done", summary |-> TRUE, force |-> c.force,
           unique |-> c.unique, target |-> c.target, now |-> c.now,
           fresh |-> c.fresh,
           writes |-> c.writes,
           res |-> [c.res EXCEPT !.err = "", !.at = ""]])

\* what is kept of the calls before the previous one
Forgotten == Merge(InitCall, [pc |-> "done", summary |-> TRUE])


\* lines 187-192: stat the file, derive the write mode, open the file and
\* choose the transfer
EnterTransfer(p) ==
    [ file_size |-> localSize,
      mode      |-> WriteMode(call[p].force),
      tell      |-> 0,
      pc        |-> IF IsSmallFile(localSize) THEN "upload" ELSE "start" ]

\* line 172: the existence check runs unless unique
AfterDirectory(p) ==
    IF call[p].unique THEN EnterTransfer(p) ELSE [pc |-> "target_meta"]

\* lines 149-166: credentials, validation, target name.  No remote call.
\* now is the reading of datetime.now(), taken when unique.
upload_file(f, u, now) ==
    LET args == [force |-> f, unique |-> u,
                 fresh |-> entry[filename(u, now)] = "absent"]
        bad  == _validate_file(localKind, localSize)
    IN  IF ~provider_auth(token)
          THEN Merge(args, [pc |-> "done", res |-> Raise(auth_error, "auth")])
        ELSE IF bad # ""
          THEN Merge(args, [pc |-> "done", res |-> Raise(bad, "validate")])
        ELSE Merge(args, [target |-> filename(u, now),
                          now    |-> IF u THEN now ELSE Reading(0, 0),
                          pc     |-> "ensure_meta"])

\* the readings the clock may show next in the same century: it does not
\* go back
SameCentury(r) == {Reading(r.century, t) : t \in r.tick..MaxClock}

\* those of them that fall on a whole second
WholeSeconds(r) == {n \in SameCentury(r) : n.tick % TicksPerSecond = 0}

\* the readings the clock may show in the next century
NextCentury(r) ==
    IF r.century < MaxCentury
      THEN {Reading(r.century + 1, t) : t \in 0..MaxClock}
      ELSE {}

\* a call of upload_file begins at one of the readings; the calls follow
\* one another
BeginAt(p, readings, flags) ==
    /\ call[p].pc = "idle"
    /\ \A q \in Calls : q < p => call[q].pc = "done"
    /\ \E f \in BOOLEAN, u \in flags :
       \E now \in (IF u THEN readings ELSE {clock}) :
         /\ clock' = now
         /\ call' = [q \in Calls |->
                       IF q = p THEN Merge(call[q], upload_file(f, u, now))
                       ELSE IF q = p - 1 THEN Summary(call[q])
                       ELSE IF q < p THEN Forgotten
                       ELSE call[q]]
    /\ session' = [q \in Calls |-> -1]
    /\ failures' = {q \in failures : q >= p - 1}
    /\ UNCHANGED <<env, updir, entry, links>>

\* a call of upload_file begins, on a whole second when it reads the clock
Begin(p) == BeginAt(p, WholeSeconds(clock), BOOLEAN)

\* a call of upload_file begins within a second; it reads the clock, so
\* unique is set
BeginWithinSecond(p) ==
    BeginAt(p, SameCentury(clock) \ WholeSeconds(clock), {TRUE})

\* a call of upload_file begins in the century after the call before it;
\* it reads the clock, so unique is set
BeginCenturyLater(p) == BeginAt(p, NextCentury(clock), {TRUE})

\* line 114 without the folder test: the path is always deleted and made anew
UploadPathNeverFolder(meta) == FALSE

\* line 114: isinstance(meta, dropbox.files.FolderMetadata)
UploadPathIsFolder(meta) == meta = "folder"

\* line 113: files_get_metadata(upload_path)
EnsureMeta(p) ==
    /\ call[p].pc = "ensure_meta"
    /\ \/ /\ updir # "absent"
          /\ Step(p, Rec("files_get_metadata", "dir", updir, TRUE, 0, 0, 0),
                  IF UploadPathIsFolder(updir)
                    THEN AfterDirectory(p)
                    ELSE [pc |-> "ensure_delete"])
          /\ UNCHANGED failures
       \/ /\ updir = "absent"
          /\ Step(p, Rec("files_get_metadata", "dir", "not_found", FALSE, 0, 0, 0),
                  [pc |-> "ensure_create_nf"])
          /\ UNCHANGED failures
       \/ /\ failures' = failures \cup {p}
          /\ \E k \in FailKinds :
               Step(p, Rec("files_get_metadata", "dir", "failed", FALSE, 0, 0, 0),
                    [pc |-> "done",
                     res |-> Raise(IF k = "ApiError" THEN "DropboxUploadError" ELSE k,
                                   "directory")])
    /\ UNCHANGED <<env, clock, updir, entry, links, session>>

\* line 117: files_delete_v2(upload_path).  An ApiError is caught at line
\* 119, where e.error is not the error of a metadata call.
EnsureDelete(p) ==
    /\ call[p].pc = "ensure_delete"
    /\ \/ /\ updir' = "absent"
          /\ Step(p, Rec("files_delete_v2", "dir", "", TRUE, 0, 0, 0),
                  [pc |-> "ensure_create"])
          /\ UNCHANGED failures
       \/ /\ failures' = failures \cup {p}
          /\ \E k \in {"DropboxUploadError", "AttributeError", "HttpError"} :
               Step(p, Rec("files_delete_v2", "dir", "failed", FALSE, 0, 0, 0),
                    [pc |-> "done", res |-> Raise(k, "directory")])
          /\ UNCHANGED updir
    /\ UNCHANGED <<env, clock, entry, links, session>>

\* line 118: files_create_folder_v2(upload_path) after the delete
EnsureCreate(p) ==
    /\ call[p].pc = "ensure_create"
    /\ \/ /\ updir' = "folder"
          /\ Step(p, Rec("files_create_folder_v2", "dir", "", TRUE, 0, 0, 0),
                  AfterDirectory(p))
          /\ UNCHANGED failures
       \/ /\ failures' = failures \cup {p}
          /\ \E k \in {"DropboxUploadError", "AttributeError", "HttpError"} :
               Step(p, Rec("files_create_folder_v2", "dir", "failed", FALSE, 0, 0, 0),
                    [pc |-> "done", res |-> Raise(k, "directory")])
          /\ UNCHANGED updir
    /\ UNCHANGED <<env, clock, entry, links, session>>

\* line 121: files_create_folder_v2(upload_path) in the not-found handler
EnsureCreateNotFound(p) ==
    /\ call[p].pc = "ensure_create_nf"
    /\ \/ /\ updir' = "folder"
          /\ Step(p, Rec("files_create_folder_v2", "dir", "", TRUE, 0, 0, 0),
                  AfterDirectory(p))
          /\ UNCHANGED failures
       \/ /\ failures' = failures \cup {p}
          /\ \E k \in FailKinds :
               Step(p, Rec("files_create_folder_v2", "dir", "failed", FALSE, 0, 0, 0),
                    [pc |-> "done", res |-> Raise(k, "directory")])
          /\ UNCHANGED updir
    /\ UNCHANGED <<env, clock, entry, links, session>>

\* line 175 without the folder test
FolderNeverSeen(meta) == FALSE

\* line 175: isinstance(meta, dropbox.files.FolderMetadata)
IsFolderMetadata(meta) == meta = "folder"

\* lines 175-181: the target exists, with metadata meta
TargetExists(p, meta) ==
    IF IsFolderMetadata(meta)
      THEN [pc |-> "done", res |-> Raise("FolderExistsError", "target")]
    ELSE IF SkipExisting(call[p].force)
      THEN [pc |-> "share", skipped |-> TRUE, attempt |-> 1]
    ELSE EnterTransfer(p)

\* lines 172-185: files_get_metadata(target_path) and what follows from it
TargetMeta(p) ==
    LET t == call[p].target IN
    /\ call[p].pc = "target_meta"
    /\ \/ /\ entry[t] # "absent"
          /\ Step(p, Rec("files_get_metadata", "target", entry[t], TRUE, 0, 0, 0),
                  TargetExists(p, entry[t]))
          /\ UNCHANGED failures
       \/ /\ entry[t] = "absent"
          /\ Step(p, Rec("files_get_metadata", "target", "not_found", FALSE, 0, 0, 0),
                  EnterTransfer(p))
          /\ UNCHANGED failures
       \/ /\ failures' = failures \cup {p}
          /\ \E k \in FailKinds :
               Step(p, Rec("files_get_metadata", "target", "failed", FALSE, 0, 0, 0),
                    [pc |-> "done", res |-> Raise(k, "target")])
    /\ UNCHANGED <<env, clock, updir, entry, links, session>>

\* the remote store accepts a write of mode m at target t.  WriteMode.add
\* onto an existing file is a conflict unless the store finds the content
\* unchanged, which is its choice.
WriteAccepted(t, m) == entry[t] = "absent" \/ entry[t] = "file"

WriteRejected(t, m) == entry[t] = "folder" \/ (entry[t] = "file" /\ m = "add")

\* lines 224-228 and 181: what upload_file does with the URL of
\* _get_share_url
ShareDone(p, url) ==
    IF call[p].skipped THEN [pc |-> "done", res |-> Return(url)]
    ELSE IF url = NoneUrl
      THEN [pc |-> "done", res |-> Raise("DropboxUploadError", "share_url")]
    ELSE [pc |-> "done", res |-> Return(url)]

\* the retry decorator after a failed attempt: another attempt, or
\* RetryError, which line 230 wraps and line 181 lets through
ShareFailed(p) ==
    IF StopRetry(call[p].attempt)
      THEN [pc |-> "done",
            res |-> Raise(IF call[p].skipped THEN "RetryError"
                          ELSE "DropboxUploadError", "share")]
    ELSE [pc |-> "share", attempt |-> call[p].attempt + 1]

\* lines 230-232: an exception of the transfer
TransferFailed == [pc |-> "done", res |-> Raise("DropboxUploadError", "transfer")]

\* lines 194-198: files_upload(content, target_path, mode)
Upload(p) ==
    LET t   == call[p].target
        len == localSize
        rec(ok) == Rec("files_upload", call[p].mode, "", ok, 0, len, 0)
    IN
    /\ call[p].pc = "upload"
    /\ \/ /\ WriteAccepted(t, call[p].mode)
          /\ entry' = [entry EXCEPT ![t] = "file"]
          /\ Step(p, rec(TRUE), [tell |-> len, pc |-> "share", attempt |-> 1])
          /\ UNCHANGED failures
       \/ /\ WriteRejected(t, call[p].mode)
          /\ Step(p, rec(FALSE), Merge(TransferFailed, [tell |-> len]))
          /\ UNCHANGED <<entry, failures>>
       \/ /\ failures' = failures \cup {p}
          /\ Step(p, rec(FALSE), Merge(TransferFailed, [tell |-> len]))
          /\ UNCHANGED entry
    /\ UNCHANGED <<env, clock, updir, links, session>>

\* lines 204-211: files_upload_session_start(initial_chunk) and the cursor
SessionStart(p) ==
    LET len == ReadLength(localSize, 0)
        rec(ok) == Rec("files_upload_session_start", "", "", ok, 0, len, len)
    IN
    /\ call[p].pc = "start"
    /\ \/ /\ session' = [session EXCEPT ![p] = len]
          /\ Step(p, rec(TRUE),
                  [tell |-> len, offset |-> len, last_progress |-> 0,
                   pc |-> IF LoopCondition(call[p].file_size, len)
                            THEN "loop" ELSE "share",
                   attempt |-> 1])
          /\ UNCHANGED failures
       \/ /\ failures' = failures \cup {p}
          /\ Step(p, rec(FALSE), Merge(TransferFailed, [tell |-> len]))
          /\ UNCHANGED session
    /\ UNCHANGED <<env, clock, updir, entry, links>>

\* lines 220-223: the progress after a chunk
AfterChunk(p, tell) ==
    LET progress == Percent(tell, call[p].file_size)
        due      == ProgressDue(progress, call[p].last_progress)
    IN  [ tell          |-> tell,
          last_progress |-> IF due THEN progress ELSE call[p].last_progress,
          emitted       |-> IF due THEN Append(call[p].emitted, progress)
                            ELSE call[p].emitted,
          pc            |-> IF LoopCondition(call[p].file_size, tell)
                              THEN "loop" ELSE "share",
          attempt       |-> 1 ]

\* lines 212-223: one pass of the loop.  The remote store takes a chunk
\* only at the offset its session has reached.
LoopStep(p) ==
    LET t    == call[p].target
        last == is_last_chunk(call[p].file_size, call[p].tell)
        len  == ReadLength(localSize, call[p].tell)
        tell == call[p].tell + len
        read == [empty_reads |-> call[p].empty_reads + IF len = 0 THEN 1 ELSE 0]
        inOrder == session[p] >= 0 /\ call[p].offset = session[p]
        fin(ok) == Rec("files_upload_session_finish", call[p].mode, "", ok,
                       call[p].offset, len, call[p].offset)
        app(ok) == Rec("files_upload_session_append_v2", "", "", ok,
                       call[p].offset, len,
                       IF ok THEN OffsetAfterAppend(tell) ELSE call[p].offset)
    IN
    /\ call[p].pc = "loop"
    /\ len > 0 \/ call[p].empty_reads < MaxEmptyReads
    /\ \/ /\ last /\ inOrder /\ WriteAccepted(t, call[p].mode)
          /\ entry' = [entry EXCEPT ![t] = "file"]
          /\ session' = [session EXCEPT ![p] = -1]
          /\ Step(p, fin(TRUE), Merge(AfterChunk(p, tell), read))
          /\ UNCHANGED failures
       \/ /\ ~last /\ inOrder
          /\ session' = [session EXCEPT ![p] = @ + len]
          /\ Step(p, app(TRUE),
                  Merge(Merge(AfterChunk(p, tell), read),
                        [offset |-> OffsetAfterAppend(tell)]))
          /\ UNCHANGED <<entry, failures>>
       \/ /\ ~inOrder \/ (last /\ WriteRejected(t, call[p].mode))
          /\ Step(p, IF last THEN fin(FALSE) ELSE app(FALSE),
                  Merge(TransferFailed, [tell |-> tell]))
          /\ UNCHANGED <<entry, session, failures>>
       \/ /\ failures' = failures \cup {p}
          /\ Step(p, IF last THEN fin(FALSE) ELSE app(FALSE),
                  Merge(TransferFailed, [tell |-> tell]))
          /\ UNCHANGED <<entry, session>>
    /\ UNCHANGED <<env, clock, updir, links>>

\* lines 92-95: sharing_create_shared_link_with_settings(db_path), one
\* attempt of _get_share_url
ShareCreate(p) ==
    LET t == call[p].target
        rec(ok, ret) == Rec("sharing_create_shared_link_with_settings", "target",
                            ret, ok, call[p].attempt, 0, 0)
    IN
    /\ call[p].pc = "share"
    /\ \/ /\ entry[t] # "absent" /\ links[t] = << >>
          /\ links' = [links EXCEPT ![t] = << LinkUrl(t, 1) >>]
          /\ Step(p, rec(TRUE, "created"),
                  ShareDone(p, _get_download_url(LinkUrl(t, 1))))
          /\ UNCHANGED failures
       \/ /\ links[t] # << >>
          /\ Step(p, rec(FALSE, "shared_link_already_exists"), [pc |-> "share_list"])
          /\ UNCHANGED <<links, failures>>
       \/ /\ entry[t] = "absent" /\ links[t] = << >>
          /\ Step(p, rec(FALSE, "not_found"), ShareFailed(p))
          /\ UNCHANGED <<links, failures>>
       \/ /\ failures' = failures \cup {p}
          /\ Step(p, rec(FALSE, "failed"), ShareFailed(p))
          /\ UNCHANGED links
    /\ UNCHANGED <<env, clock, updir, entry, session>>

\* lines 96-102: sharing_list_shared_links(db_path).links after
\* shared_link_already_exists.  The links may have been revoked since.
ShareList(p) ==
    LET t == call[p].target
        rec(ok, ret) == Rec("sharing_list_shared_links", "target", ret, ok,
                            call[p].attempt, 0, 0)
    IN
    /\ call[p].pc = "share_list"
    /\ \/ /\ links[t] # << >>
          /\ Step(p, rec(TRUE, "listed"), ShareDone(p, _get_download_url(FirstExistingLink(links[t]))))
          /\ UNCHANGED <<links, failures>>
       \/ /\ failures' = failures \cup {p}
          /\ links' = [links EXCEPT ![t] = << >>]
          /\ Step(p, rec(TRUE, "no_links"), ShareFailed(p))
       \/ /\ failures' = failures \cup {p}
          /\ Step(p, rec(FALSE, "failed"), ShareFailed(p))
          /\ UNCHANGED links
    /\ UNCHANGED <<env, clock, updir, entry, session>>

(***************************************************************************)
(* The specification                                                       *)
(***************************************************************************)
Next ==
    \E p \in Calls :
       \/ Begin(p)
       \/ EnsureMeta(p)
       \/ EnsureDelete(p)
       \/ EnsureCreate(p)
       \/ EnsureCreateNotFound(p)
       \/ TargetMeta(p)
       \/ Upload(p)
       \/ SessionStart(p)
       \/ LoopStep(p)
       \/ ShareCreate(p)
       \/ ShareList(p)

Spec == Init /\ [][Next]_vars

(***************************************************************************)
(* The specification with a source file that another process truncates     *)
(* while it is uploaded                                                    *)
(***************************************************************************)
\* the sizes the source file is cut to
TruncatedSizes == {0, SMALL_FILE_THRESHOLD + 1, 2 * SMALL_FILE_THRESHOLD + 1}

\* another process truncates the source file after line 187 measured it
\* and before the transfer has read it to the end
Truncate ==
    /\ \E p \in Calls : call[p].pc \in {"upload", "start", "loop"}
    /\ \E s \in TruncatedSizes : s < localSize /\ localSize' = s
    /\ UNCHANGED <<token, localKind, clock, updir, entry, links, session, failures,
                   call>>

InitTruncate ==
    /\ Init
    /\ token
    /\ localKind = "file"
    /\ localSize \in {SMALL_FILE_THRESHOLD, 3 * SMALL_FILE_THRESHOLD}

NextTruncate ==
    \/ Next
    \/ Truncate

SpecTruncate == InitTruncate /\ [][NextTruncate]_vars

(***************************************************************************)
(* The specification with concurrent calls: the upload directory is a      *)
(* folder and no target exists yet                                         *)
(***************************************************************************)
\* the two calls that run concurrently
Racers == Calls \cap {1, 2}

\* a call of upload_file begins while other calls are running; nothing
\* in lines 149-166 waits for them
BeginConcurrent(p) ==
    /\ call[p].pc = "idle"
    /\ p \in Racers
    /\ \E f \in BOOLEAN, u \in BOOLEAN :
       \E now \in (IF u THEN WholeSeconds(clock) ELSE {clock}) :
         /\ clock' = now
         /\ call' = [call EXCEPT ![p] = Merge(@, upload_file(f, u, now))]
    /\ UNCHANGED <<env, updir, entry, links, session, failures>>

InitRace ==
    /\ Init
    /\ token
    /\ localKind = "file"
    /\ localSize \in {SMALL_FILE_THRESHOLD, SMALL_FILE_THRESHOLD + 1}
    /\ updir = "folder"
    /\ entry = [n \in Names |-> "absent"]

NextRace ==
    \E p \in Calls :
       \/ BeginConcurrent(p)
       \/ EnsureMeta(p)
       \/ TargetMeta(p)
       \/ Upload(p)
       \/ SessionStart(p)
       \/ LoopStep(p)
       \/ ShareCreate(p)
       \/ ShareList(p)

SpecRace == InitRace /\ [][NextRace]_vars

(***************************************************************************)
(* The specification with the calls a century apart: valid files that      *)
(* take each of the two transfers                                          *)
(***************************************************************************)
InitClock ==
    /\ Init
    /\ token
    /\ localKind = "file"
    /\ localSize \in {0, SMALL_FILE_THRESHOLD + 1}

NextClock ==
    \/ Next
    \/ \E p \in Calls : BeginWithinSecond(p)
    \/ \E p \in Calls : BeginCenturyLater(p)

SpecClock == InitClock /\ [][NextClock]_vars

(***************************************************************************)
(* Properties                                                              *)
(***************************************************************************)
\* the calls whose history is kept in full: begun and not yet summarised
Live == {p \in Calls : call[p].pc # "idle" /\ ~call[p].summary}

SessionOps ==
    {"files_upload_session_start", "files_upload_session_append_v2",
     "files_upload_session_finish"}

TransferOps == {"files_upload"} \cup SessionOps

ShareOps == {"sharing_create_shared_link_with_settings", "sharing_list_shared_links"}

\* the positions of the calls of ops in a history
Positions(tr, ops) == {i \in DOMAIN tr : tr[i].op \in ops}

Count(tr, ops) == Cardinality(Positions(tr, ops))

Returned(p) == call[p].pc = "done" /\ call[p].res.kind = "return"

Raised(p) == call[p].pc = "done" /\ call[p].res.kind = "raise"

\* the positions at which the existence check found the target to be meta
TargetFound(tr, meta) ==
    {i \in DOMAIN tr : tr[i].op = "files_get_metadata" /\ tr[i].arg = "target"
                       /\ tr[i].ret = meta}

\* call p found its target to exist as a file, with unique and force false
SkipCase(p) ==
    /\ ~call[p].unique /\ ~call[p].force
    /\ TargetFound(call[p].trace, "file") # {}

\* C1: a validated file of at most 4 MiB (4 MiB included) is transferred
\* by exactly one files_upload call and no session call; a larger one by a
\* session with exactly one start call and no files_upload call; and a
\* call that returns without taking the skip has made a transfer.
C1_TransferBySize ==
    \A p \in Live :
       LET tr     == call[p].trace
           made   == Positions(tr, TransferOps)
           starts == {i \in made : tr[i].op = "files_upload_session_start"}
       IN
       /\ made # {} =>
            IF localSize <= 4 * 1024 * 1024
              THEN /\ Cardinality(made) = 1
                   /\ \A i \in made : tr[i].op = "files_upload"
              ELSE /\ \A i \in made : tr[i].op # "files_upload"
                   /\ Cardinality(starts) = 1
                   /\ \A i \in starts : \A j \in made : i <= j
       /\ Returned(p) /\ ~SkipCase(p) => made # {}

\* a file of exactly 4 MiB has been uploaded in one request
C1_Witness ==
    \E p \in Live :
       /\ Returned(p)
       /\ localSize = 4 * 1024 * 1024
       /\ Count(call[p].trace, {"files_upload"}) = 1

\* the URL of call p is the direct-download form of the first link the
\* store lists for the target
FirstLinkUrl(p) ==
    LET t == call[p].target IN
    /\ links[t] # << >>
    /\ call[p].res.url = [path |-> t, id |-> links[t][1].id, dl |-> "1"]

\* C2 (as amended): an upload with unique and force false whose target
\* exists as a file issues no transfer call; every call after the
\* existence check is a share-link call (create or list); and the URL
\* returned is the direct-download form of the first link listed for the
\* target when the target had a link, and of the link this call created
\* when it had none.
C2_SkipTransfersNothing ==
    \A p \in Live :
       SkipCase(p) =>
         LET tr == call[p].trace
             k  == CHOOSE i \in TargetFound(tr, "file") : TRUE
         IN  /\ Count(tr, TransferOps) = 0
             /\ call[p].writes = 0
             /\ \A i \in DOMAIN tr : i > k => tr[i].op \in ShareOps
             /\ Returned(p) =>
                  /\ FirstLinkUrl(p)
                  /\ tr[Len(tr)].ret \in {"listed", "created"}
                  /\ tr[Len(tr)].ret = "created" =>
                       \A i \in DOMAIN tr : i > k /\ i < Len(tr) =>
                          tr[i].ret # "listed"

\* the skip returned the URL of a link the target already had
C2_Witness ==
    \E p \in Live :
       /\ SkipCase(p) /\ Returned(p)
       /\ call[p].trace[Len(call[p].trace)].ret = "listed"
       /\ FirstLinkUrl(p)

\* C2 as stated: in the skip case the URL returned is that of a link that
\* already existed, so the call creates none
C2_ReturnsExistingLink ==
    \A p \in Live :
       SkipCase(p) /\ Returned(p) =>
         /\ Count(call[p].trace, TransferOps) = 0
         /\ \A i \in DOMAIN call[p].trace : call[p].trace[i].ret # "created"

\* call p follows call p - 1, both with unique and force false, the first
\* from a remote without the target, a valid file, the token and no remote
\* failure
TwiceCase(p) ==
    /\ p > 1
    /\ p \in Live /\ call[p].pc = "done"
    /\ call[p - 1].summary /\ call[p - 1].fresh
    /\ ~call[p - 1].unique /\ ~call[p - 1].force
    /\ ~call[p].unique /\ ~call[p].force
    /\ failures \cap {p - 1, p} = {}
    /\ token /\ localKind = "file" /\ localSize <= MAX_FILE_SIZE

\* C3: of two calls in sequence for the same file with unique and force
\* false, from a remote without the target and with no remote failure, the
\* first makes exactly one write call, the second none, and both return
\* the same URL.
C3_SecondCallWritesNothing ==
    \A p \in Calls :
       TwiceCase(p) =>
         /\ call[p - 1].writes = 1
         /\ call[p].writes = 0
         /\ Count(call[p].trace, TransferOps) = 0
         /\ call[p - 1].res.kind = "return"
         /\ Returned(p)
         /\ call[p].res.url = call[p - 1].res.url

\* the second of two such calls has returned
C3_Witness ==
    \E p \in Calls :
       /\ TwiceCase(p)
       /\ Returned(p)
       /\ call[p - 1].writes = 1

\* the session calls of a history that the store accepted
Accepted(tr, op) == {i \in DOMAIN tr : tr[i].op = op /\ tr[i].ok}

\* C4 (as amended): after the session start and after every append the
\* cursor offset is the offset before the step plus the bytes read in it;
\* the commit step passes the offset before it and leaves the cursor
\* unchanged, so when the transfer completes the bytes read equal the file
\* size and the cursor offset is the file size less the last chunk.
C4_CursorFollowsAppends ==
    \A p \in Live :
       LET tr == call[p].trace IN
       /\ \A i \in Accepted(tr, "files_upload_session_start") :
             tr[i].off = 0 /\ tr[i].after = tr[i].off + tr[i].len
       /\ \A i \in Accepted(tr, "files_upload_session_append_v2") :
             /\ tr[i].after = tr[i].off + tr[i].len
             /\ tr[i - 1].op \in SessionOps /\ tr[i].off = tr[i - 1].after
       /\ \A i \in Accepted(tr, "files_upload_session_finish") :
             /\ tr[i - 1].op \in SessionOps /\ tr[i].off = tr[i - 1].after
             /\ tr[i].after = tr[i].off
             /\ tr[i].len > 0
             /\ tr[i].off + tr[i].len = call[p].file_size
             /\ call[p].offset = tr[i].off
             /\ call[p].tell = call[p].file_size

\* a chunked transfer with appends has completed
C4_Witness ==
    \E p \in Live :
       /\ Returned(p)
       /\ Accepted(call[p].trace, "files_upload_session_append_v2") # {}
       /\ Accepted(call[p].trace, "files_upload_session_finish") # {}
       /\ call[p].offset < call[p].file_size

\* C4 as stated: every step of the session, the commit included, leaves
\* the cursor at the offset before it plus the bytes read, and the cursor
\* offset is the file size once the commit is done
C4_CursorReachesFileSize ==
    \A p \in Live :
       LET tr == call[p].trace IN
       /\ \A i \in Positions(tr, SessionOps) :
             tr[i].ok => tr[i].after = tr[i].off + tr[i].len
       /\ Accepted(tr, "files_upload_session_finish") # {} =>
             call[p].offset = call[p].file_size

\* C5: the progress percentages emitted in one chunked upload each exceed
\* the one emitted before by at least 10 (the first is at least 10), so
\* the sequence is non-decreasing and without duplicates.
C5_ProgressSteps ==
    \A p \in Live :
       LET e == call[p].emitted IN
       /\ \A i \in DOMAIN e : e[i] >= 10 /\ e[i] <= 100
       /\ \A i \in DOMAIN e : i > 1 => e[i] >= e[i - 1] + 10
       /\ \A i, j \in DOMAIN e : i < j => e[i] < e[j]
       /\ e # << >> => call[p].last_progress = e[Len(e)]

\* a chunked upload has emitted several percentages
C5_Witness ==
    \E p \in Live :
       /\ Returned(p)
       /\ Len(call[p].emitted) >= 3

\* the source path is missing, not a regular file, or larger than 150 MiB
InvalidFile == localKind # "file" \/ localSize > 150 * 1024 * 1024

\* C6: with a source path that is missing, not a regular file or larger
\* than 150 MiB, upload_file raises without having made any remote call,
\* and with the token set what it raises is the validation error
\* (FileNotFoundError or ValueError from _validate_file); a file of
\* exactly 150 MiB passes validation.
C6_ValidationBeforeRemote ==
    \A p \in Live :
       /\ InvalidFile =>
            /\ Raised(p)
            /\ call[p].trace = << >>
            /\ call[p].writes = 0
            /\ token => /\ call[p].res.at = "validate"
                        /\ call[p].res.err \in {"FileNotFoundError", "ValueError"}
       /\ call[p].res.at = "validate" => InvalidFile
       /\ token /\ localKind = "file" /\ localSize = 150 * 1024 * 1024 =>
            call[p].res.at # "validate" /\ (call[p].pc = "done" => call[p].trace # << >>)

\* an oversized file has been rejected by validation
C6_Witness ==
    \E p \in Live :
       /\ token /\ localKind = "file" /\ localSize > 150 * 1024 * 1024
       /\ Raised(p) /\ call[p].res.at = "validate"
       /\ call[p].trace = << >>

\* C7: when unique is false and the target path exists as a folder,
\* upload_file raises FolderExistsError whether force is set or not,
\* having made no write call, no other transfer call and no share-link
\* call.
C7_FolderConflict ==
    \A p \in Live :
       LET tr == call[p].trace IN
       /\ TargetFound(tr, "folder") # {} =>
            /\ ~call[p].unique
            /\ Raised(p)
            /\ call[p].res.err = "FolderExistsError"
            /\ call[p].writes = 0
            /\ Count(tr, TransferOps) = 0
            /\ Count(tr, ShareOps) = 0
            /\ TargetFound(tr, "folder") = {Len(tr)}
       /\ call[p].res.err = "FolderExistsError" => TargetFound(tr, "folder") # {}

\* a forced upload onto a folder has been refused
C7_Witness ==
    \E p \in Live :
       /\ call[p].force /\ ~call[p].unique
       /\ TargetFound(call[p].trace, "folder") # {}
       /\ Raised(p) /\ call[p].res.err = "FolderExistsError"

\* the attempts of _get_share_url in a history: each begins with a call
\* of sharing_create_shared_link_with_settings
Attempts(tr) == Positions(tr, {"sharing_create_shared_link_with_settings"})

\* the share-link calls that end an attempt in failure
FailedShare(r) ==
    /\ r.op \in ShareOps
    /\ r.ret \in {"failed", "not_found", "no_links"}

\* the share-link calls that end an attempt in success
SucceededShare(r) ==
    /\ r.op \in ShareOps
    /\ r.ret \in {"created", "listed"}

\* C8: share-link retrieval for one upload makes at most 3 attempts,
\* numbered 1, 2, 3; a successful attempt is the last call of the upload;
\* a failed attempt before the third is followed by another attempt; and
\* after the third failed attempt the upload raises and makes no fourth.
C8_ThreeShareAttempts ==
    \A p \in Live :
       LET tr  == call[p].trace
           n   == Len(tr)
           att == Attempts(tr)
       IN  /\ Cardinality(att) <= 3
           /\ \A i \in att : tr[i].off = Cardinality({j \in att : j <= i})
           /\ \A i \in Positions(tr, ShareOps) :
                 /\ SucceededShare(tr[i]) => i = n /\ call[p].pc = "done"
                 /\ FailedShare(tr[i]) /\ tr[i].off < 3 =>
                       \/ i < n /\ i + 1 \in att
                       \/ i = n /\ call[p].pc = "share"
                 /\ FailedShare(tr[i]) /\ tr[i].off >= 3 =>
                       /\ i = n /\ tr[i].off = 3
                       /\ Raised(p) /\ call[p].res.at = "share"
           /\ call[p].res.at = "share" =>
                 /\ Cardinality(att) = 3
                 /\ FailedShare(tr[n])
                 /\ call[p].res.err \in {"DropboxUploadError", "RetryError"}

\* three attempts have failed and the upload has raised
C8_Witness ==
    \E p \in Live :
       /\ Raised(p) /\ call[p].res.at = "share"
       /\ Cardinality(Attempts(call[p].trace)) = 3
       /\ call[p].writes = 1

\* C9: every failure of a transfer call or of share-link retrieval
\* reaches the caller of upload_file as DropboxUploadError, on the path
\* that skips the write as on the others.
C9_FailuresAreUploadErrors ==
    \A p \in Live :
       Raised(p) /\ call[p].res.at \in {"transfer", "share", "share_url"} =>
          call[p].res.err = "DropboxUploadError"

\* C10: the error of upload_file without credentials and its error for a
\* missing, non-regular or oversized file are of distinct kinds.
C10_AuthAndValidationDiffer ==
    \A p \in Live :
       Raised(p) /\ call[p].res.at = "validate" => call[p].res.err # auth_error

\* the remote calls that begin a transfer
FirstTransferOps == {"files_upload", "files_upload_session_start"}

\* C11: every write call of upload_file (files_upload or the commit of a
\* session) carries WriteMode.overwrite when force is true and
\* WriteMode.add when it is false, whatever unique is; and with unique
\* false, force true and the target existing as a file, the call after
\* the existence check begins the transfer, and a call that returns has
\* made exactly one write call.
C11_WriteModeFollowsForce ==
    \A p \in Live :
       LET tr == call[p].trace
           n  == Len(tr)
       IN  /\ \A i \in Positions(tr, WriteOps) :
                 tr[i].arg = IF call[p].force THEN "overwrite" ELSE "add"
           /\ call[p].force =>
                 /\ \A i \in TargetFound(tr, "file") :
                       i < n => tr[i + 1].op \in FirstTransferOps
                 /\ Returned(p) => call[p].writes = 1

\* a forced upload has overwritten an existing target file
C11_Witness ==
    \E p \in Live :
       /\ call[p].force /\ ~call[p].unique
       /\ TargetFound(call[p].trace, "file") # {}
       /\ Returned(p)
       /\ \E i \in Positions(call[p].trace, WriteOps) :
             call[p].trace[i].arg = "overwrite" /\ call[p].trace[i].ok

\* call p and the call before it both took a name from the clock
BothUnique(p) ==
    /\ p > 1 /\ p \in Live
    /\ call[p - 1].summary
    /\ call[p - 1].unique /\ call[p - 1].target # 0
    /\ call[p].unique /\ call[p].target # 0

\* the reading b is no earlier than the reading a
NotBefore(a, b) ==
    \/ b.century > a.century
    \/ b.century = a.century /\ b.tick >= a.tick

\* the readings a and b fall in the same second
SameSecond(a, b) ==
    /\ a.century = b.century
    /\ a.tick \div TicksPerSecond = b.tick \div TicksPerSecond

\* the reading b is a second or more after the reading a; a century is
\* longer than the ticks of one
SecondApart(a, b) ==
    \/ b.century > a.century
    \/ b.century = a.century /\ b.tick - a.tick >= TicksPerSecond

LoopSteps(tr) ==
    {i \in DOMAIN tr :
        /\ tr[i].op \in {"files_upload_session_append_v2", "files_upload_session_finish"}
        /\ tr[i].ok}

\* the cumulative percentage after the session call at position i
PercentAfter(p, i) ==
    Percent(call[p].trace[i].off + call[p].trace[i].len, call[p].file_size)

\* the multiple-of-ten band of a percentage
Band(x) == x \div 10

Emitted(p) == {call[p].emitted[k] : k \in DOMAIN call[p].emitted}

\* C13: in a chunked upload a notification is emitted at every step of
\* the loop at which the cumulative percentage enters a multiple-of-ten
\* band that no earlier step had reached, and no two notifications fall
\* in the same band.
C13_EveryBandNotified ==
    \A p \in Live :
       /\ \A i \in LoopSteps(call[p].trace) :
             Band(PercentAfter(p, i)) > Band(PercentAfter(p, i - 1)) =>
                PercentAfter(p, i) \in Emitted(p)
       /\ \A j, k \in DOMAIN call[p].emitted :
             j < k => Band(call[p].emitted[j]) # Band(call[p].emitted[k])

\* the remote calls of a history that name the upload path
DirectoryCalls(tr) == {i \in DOMAIN tr : tr[i].arg = "dir"}

\* call p has left _ensure_upload_directory by its return
DirectoryReturned(p) ==
    /\ call[p].pc \notin {"idle", "ensure_meta", "ensure_delete", "ensure_create",
                          "ensure_create_nf"}
    /\ call[p].res.at \notin {"auth", "validate", "directory"}

\* C14: the first remote call of every call that passes validation is the
\* metadata call of the directory check; for a folder no delete and no
\* create-folder call follows, for a non-folder a delete and then a
\* create-folder call, for a path not found a create-folder call and no
\* delete; and when the check returns the upload path is a folder.
C14_DirectoryCheck ==
    \A p \in Live :
       LET tr == call[p].trace
           d  == DirectoryCalls(tr)
           n  == Cardinality(d)
       IN  /\ call[p].pc = "done" /\ call[p].res.at \notin {"auth", "validate"} =>
                 tr # << >>
           /\ d = 1..n
           /\ tr # << >> =>
                 /\ tr[1].op = "files_get_metadata" /\ tr[1].arg = "dir"
                 /\ tr[1].ret \in {"folder", "failed"} => n = 1
                 /\ tr[1].ret = "file" =>
                       /\ n <= 3
                       /\ n >= 2 => tr[2].op = "files_delete_v2"
                       /\ n >= 3 => tr[2].ok /\ tr[3].op = "files_create_folder_v2"
                       /\ DirectoryReturned(p) => n = 3 /\ tr[3].ok
                 /\ tr[1].ret = "not_found" =>
                       /\ n <= 2
                       /\ n = 2 => tr[2].op = "files_create_folder_v2"
                       /\ DirectoryReturned(p) => n = 2 /\ tr[2].ok
                 /\ tr[1].ret = "failed" => Raised(p)
           /\ DirectoryReturned(p) => updir = "folder"

\* a non-folder at the upload path has been deleted and replaced by a
\* folder, and the upload has gone on
C14_Witness ==
    \E p \in Live :
       /\ Returned(p)
       /\ Len(call[p].trace) > 3
       /\ call[p].trace[1].ret = "file"
       /\ call[p].trace[2].op = "files_delete_v2"
       /\ call[p].trace[3].op = "files_create_folder_v2"
       /\ updir = "folder"


(***************************************************************************)
(* C15: within one call the chunked transfer issues exactly one session    *)
(* start, which precedes every append and commit; at most one commit is    *)
(* issued and no session call follows it; a start, append or commit that   *)
(* fails is the last remote call and the call ends in failure.             *)
(***************************************************************************)
C15_SessionStateMachine ==
    \A p \in Live :
       LET tr      == call[p].trace
           session_calls == Positions(tr, SessionOps)
           starts  == {i \in session_calls : tr[i].op = "files_upload_session_start"}
           commits == {i \in session_calls : tr[i].op = "files_upload_session_finish"}
       IN  /\ Cardinality(starts) <= 1
           /\ Cardinality(commits) <= 1
           /\ \A i \in session_calls :
                 /\ \E j \in starts : j <= i
                 /\ \A j \in commits : i <= j
                 /\ ~tr[i].ok => i = Len(tr) /\ Raised(p)

(***************************************************************************)
(* C20: the loop of the chunked transfer always terminates with at most    *)
(* one commit, also when the source file is truncated during the upload:   *)
(* a call never issues a second commit, and while the loop runs the file   *)
(* still has bytes after the position read so far, so that every pass      *)
(* moves the position toward the measured size.                            *)
(***************************************************************************)
C20_LoopEndsWithOneCommit ==
    \A p \in Live :
       /\ Count(call[p].trace, {"files_upload_session_finish"}) <= 1
       /\ call[p].pc = "loop" => call[p].tell < localSize


(***************************************************************************)
(* C16: in a share-link attempt whose creation fails because a link        *)
(* already exists the links are listed; a non-empty list ends the attempt  *)
(* and the call with the first listed link (as dl=1 URL) and no link was   *)
(* created by the call; an empty list makes the attempt a failed one: the  *)
(* next attempt follows, or after the third the call raises.               *)
(***************************************************************************)
C16_ReusesFirstListedLink ==
    \A p \in Live :
       LET tr == call[p].trace
           n  == Len(tr)
       IN  \A i \in Positions(tr, ShareOps) :
              /\ tr[i].ret = "shared_link_already_exists" =>
                    \/ i = n /\ call[p].pc = "share_list"
                    \/ /\ i < n
                       /\ tr[i + 1].op = "sharing_list_shared_links"
                       /\ tr[i + 1].off = tr[i].off
              /\ tr[i].op = "sharing_list_shared_links" =>
                    i > 1 /\ tr[i - 1].ret = "shared_link_already_exists"
              /\ tr[i].ret = "listed" =>
                    /\ i = n /\ Returned(p)
                    /\ call[p].res.url =
                          [path |-> call[p].target,
                           id   |-> Head(links[call[p].target]).id,
                           dl   |-> "1"]
                    /\ \A j \in 1..n : tr[j].ret # "created"
              /\ tr[i].ret = "no_links" =>
                    \/ tr[i].off < STOP_AFTER_ATTEMPT /\ i = n /\ call[p].pc = "share"
                    \/ /\ tr[i].off < STOP_AFTER_ATTEMPT /\ i < n
                       /\ tr[i + 1].op = "sharing_create_shared_link_with_settings"
                       /\ tr[i + 1].off = tr[i].off + 1
                    \/ /\ tr[i].off = STOP_AFTER_ATTEMPT /\ i = n
                       /\ Raised(p) /\ call[p].res.at = "share"

\* a call that returned the first of two listed links
C16_Witness ==
    \E p \in Live :
       LET tr == call[p].trace IN
       /\ Returned(p)
       /\ tr # << >>
       /\ tr[Len(tr)].ret = "listed"
       /\ Len(links[call[p].target]) = 2


\* the existence check of call p found the target absent (line 184)
SawTargetAbsent(p) ==
    \E i \in DOMAIN call[p].trace :
       /\ call[p].trace[i].op = "files_get_metadata"
       /\ call[p].trace[i].arg = "target"
       /\ call[p].trace[i].ret = "not_found"

\* the calls to the path of the target that write it
PathWrites(tr) == Positions(tr, {"files_upload", "files_upload_session_finish"})

\* two running calls without unique and force that named the same target
\* and both found it absent
RaceCase(p, q) ==
    /\ p # q
    /\ ~call[p].unique /\ ~call[q].unique
    /\ ~call[p].force /\ ~call[q].force
    /\ call[p].target = call[q].target
    /\ SawTargetAbsent(p) /\ SawTargetAbsent(q)

(***************************************************************************)
(* C17: two concurrent calls with unique=false and force=false for the     *)
(* same target, started while it is absent, are not serialized: once both  *)
(* have seen the target absent, neither repeats the existence check nor    *)
(* waits for the other (its transfer step is enabled), and every write to  *)
(* the path carries mode add.  The witness is the interleaving in which    *)
(* both then wrote the same path with mode add.                            *)
(***************************************************************************)
C17_RaceNotSerialized ==
    \A p \in Live : \A q \in Live :
       RaceCase(p, q) =>
          LET tr == call[p].trace IN
          /\ Cardinality({i \in Positions(tr, {"files_get_metadata"}) :
                             tr[i].arg = "target"}) = 1
          /\ \A i \in PathWrites(tr) : tr[i].arg = "add"
          /\ call[p].pc = "upload" => ENABLED Upload(p)
          /\ call[p].pc = "start" => ENABLED SessionStart(p)
          /\ call[p].pc = "loop" => ENABLED LoopStep(p)

\* both calls saw the target absent and the store took the write of each,
\* so both existence checks came before both writes
C17_Witness ==
    \E p \in Live : \E q \in Live :
       /\ RaceCase(p, q)
       /\ \E i \in PathWrites(call[p].trace) :
             call[p].trace[i].ok /\ call[p].trace[i].arg = "add"
       /\ \E j \in PathWrites(call[q].trace) :
             call[q].trace[j].ok /\ call[q].trace[j].arg = "add"


\* the append and commit calls of a trace
CursorCalls(tr) ==
    Positions(tr, {"files_upload_session_append_v2", "files_upload_session_finish"})

(***************************************************************************)
(* C18: the cursor offset passed with every append and commit equals the   *)
(* bytes sent to the session by the start and the appends before it: the   *)
(* call before it is a session call the store took, and the offset is     *)
(* that call's offset (0 for the start) plus its length when it is the     *)
(* start or an append; until a commit is taken the offset held for the     *)
(* next call is what the store's session has received, so no chunk leaves  *)
(* a gap or overlaps.                                                      *)
(***************************************************************************)
C18_OffsetIsBytesSent ==
    \A p \in Live :
       LET tr == call[p].trace IN
       /\ \A i \in Positions(tr, {"files_upload_session_start"}) : tr[i].off = 0
       /\ \A i \in CursorCalls(tr) :
             /\ i > 1
             /\ tr[i - 1].op \in SessionOps
             /\ tr[i - 1].ok
             /\ tr[i].off = tr[i - 1].off
                             + IF tr[i - 1].op = "files_upload_session_finish"
                                 THEN 0 ELSE tr[i - 1].len
       /\ call[p].pc = "loop" /\ session[p] >= 0 => call[p].offset = session[p]

\* a commit the store took after a start and at least one append
C18_Witness ==
    \E p \in Live :
       \E i \in Accepted(call[p].trace, "files_upload_session_finish") :
          /\ call[p].trace[i].off > SMALL_FILE_THRESHOLD
          /\ call[p].trace[i - 1].op = "files_upload_session_append_v2"


\* ceil(size / chunk_size)
ChunksOf(size) == (size + SMALL_FILE_THRESHOLD - 1) \div SMALL_FILE_THRESHOLD

\* a chunked transfer of a file that did not change, completed without a
\* failure of any remote call
ChunkedCase(p) ==
    /\ Returned(p)
    /\ p \notin failures
    /\ call[p].file_size > SMALL_FILE_THRESHOLD
    /\ Positions(call[p].trace, SessionOps) # {}

(***************************************************************************)
(* C19: a failure-free chunked transfer of a file of size s, 4 MiB < s <=  *)
(* 150 MiB, that does not change sends ceil(s / 4 MiB) chunks in one       *)
(* start, appends and one commit, the commit last; every chunk but the     *)
(* last has 4 MiB, the last has 1 byte to 4 MiB, and each chunk begins at  *)
(* the file position where the one before it ended, the first at 0 and     *)
(* the last ending at s, so that the chunks in call order are the file.    *)
(***************************************************************************)
C19_ChunksCoverFile ==
    \A p \in Live :
       ChunkedCase(p) =>
          LET tr == call[p].trace
              s  == call[p].file_size
              session_calls == Positions(tr, SessionOps)
              first == CHOOSE i \in session_calls : \A j \in session_calls : i <= j
              last  == first + ChunksOf(s) - 1
          IN  /\ s <= MAX_FILE_SIZE
              /\ session_calls = first..last
              /\ \A i \in session_calls :
                    /\ tr[i].ok
                    /\ tr[i].op = (IF i = first THEN "files_upload_session_start"
                                   ELSE IF i = last THEN "files_upload_session_finish"
                                   ELSE "files_upload_session_append_v2")
                    /\ tr[i].off = (i - first) * SMALL_FILE_THRESHOLD
                    /\ tr[i].len = (IF i < last THEN SMALL_FILE_THRESHOLD
                                    ELSE s - (last - first) * SMALL_FILE_THRESHOLD)
                    /\ tr[i].len >= 1 /\ tr[i].len <= SMALL_FILE_THRESHOLD

\* a completed chunked transfer of a file of three chunks: a start, one
\* append and the commit
C19_Witness ==
    \E p \in Live :
       /\ ChunkedCase(p)
       /\ call[p].file_size = 3 * SMALL_FILE_THRESHOLD
       /\ Count(call[p].trace, {"files_upload_session_append_v2"}) = 1

=============================================================================
